---- MODULE Spec2Model ----
(***************************************************************************)
(* Dynamic command engine of app.py: the AST validator, the per-guild      *)
(* command registry (dynamic_commands_cache + bot.tree), its persistence   *)
(* through the guild cache and the guild's JSONBin, and the invocation     *)
(* callback.  Coroutines are modelled as processes whose atomic steps are  *)
(* the code between two suspending awaits.                                 *)
(***************************************************************************)
EXTENDS Integers, Sequences, FiniteSets, TLC

\* ------------------------------------------------------------ bounds
MaxOps == 2          \* admin interactions started in one run
NProcs == 2          \* admin interactions in flight at the same time
MaxFaults == 2       \* failed network calls and refused add_command calls in one run
MaxConcFaults == 1   \* the same, in a run with admin interactions in flight together
MaxInv == 3          \* invocations of dynamic commands in one run
PoolSize == 2        \* threads of the event loop's default executor
MaxNodes == 2        \* syntax-tree nodes of a source given to the validator
MaxRequests == 3     \* calls of _jsonbin_get and _jsonbin_put followed on their own
MaxCallbacks == 2    \* invocations whose responses are followed on their own
MaxLoads == 3        \* calls of load_guild_data followed on their own

\* --------------------------------------------------- program constants
DescLimit == 100     \* (description or default)[:100]
MaxCodeLen == 10000  \* len(code) > 10000
DefaultDescLen == 21 \* len("Dynamic command: ") + len of a four-letter name
GetAttempts == 3     \* for attempt in range(3)
PutAttempts == 3     \* for attempt in range(3)

\* ------------------------------------------------------------ universe
Guilds == {"g1", "g2"}
GuildOrder == <<"g1", "g2">>
Global == "global"
Scopes == Guilds \cup {Global}
Names == {"help", "ping"}
NameOrder == <<"help", "ping">>
Procs == 1..NProcs

\* A description is its text and its length; slicing keeps the text and cuts the length.
NoDesc == [text |-> "", len |-> 0]
dShort == [text |-> "pings", len |-> 5]
dLong == [text |-> "long", len |-> 103]
Descs == {dShort, dLong}

\* A source text, by the facts the validator, exec() and the callback read from it.
cPong == [id |-> "pong", syntax |-> TRUE, size |-> 34, calls |-> {}, dunder |-> FALSE,
          run |-> "top", isAsync |-> TRUE, execOk |-> TRUE]
cSync == [id |-> "sync", syntax |-> TRUE, size |-> 30, calls |-> {}, dunder |-> FALSE,
          run |-> "top", isAsync |-> FALSE, execOk |-> TRUE]
cEval == [id |-> "eval", syntax |-> TRUE, size |-> 40, calls |-> {"eval"}, dunder |-> FALSE,
          run |-> "top", isAsync |-> TRUE, execOk |-> TRUE]
cNested == [id |-> "nested", syntax |-> TRUE, size |-> 60, calls |-> {}, dunder |-> FALSE,
            run |-> "nested", isAsync |-> TRUE, execOk |-> TRUE]
cStatic == [id |-> "static", syntax |-> TRUE, size |-> 0, calls |-> {}, dunder |-> FALSE,
            run |-> "none", isAsync |-> TRUE, execOk |-> TRUE]
Codes == {cSync, cEval}

\* ------------------------------------------------------------ dicts
EmptyDict == <<>>
RECURSIVE Restrict(_, _)
Restrict(d, keys) ==
    IF keys = {} THEN EmptyDict
    ELSE LET k == CHOOSE x \in keys : TRUE
         IN (k :> d[k]) @@ Restrict(d, keys \ {k})
Put(d, k, v) == (k :> v) @@ d
Pop(d, k) == Restrict(d, (DOMAIN d) \ {k})
Opt(d, k) == IF k \in DOMAIN d THEN {d[k]} ELSE {}

\* A guild document: "dynamic_commands" may be missing from it.
EmptyDoc == [has |-> FALSE, dc |-> EmptyDict]
DocWith(d) == [has |-> TRUE, dc |-> d]
Entry(code, description) == [code |-> code, description |-> description]

\* ------------------------------------------------------------ validator
DeniedCalls == {"eval", "exec", "__import__", "compile", "execfile"}

\* A build whose length test is len(code) >= 10000.
validate_user_code_AtLimit(code) ==
    IF ~code.syntax THEN "syntax"
    ELSE IF code.calls \cap DeniedCalls # {} THEN "call"
    ELSE IF code.dunder THEN "dunder"
    ELSE IF code.size >= MaxCodeLen THEN "toolong"
    ELSE IF code.run = "none" THEN "norun"
    ELSE "ok"

\* A build that does not look for a def named run.
validate_user_code_NoEntry(code) ==
    IF ~code.syntax THEN "syntax"
    ELSE IF code.calls \cap DeniedCalls # {} THEN "call"
    ELSE IF code.dunder THEN "dunder"
    ELSE IF code.size > MaxCodeLen THEN "toolong"
    ELSE "ok"

validate_user_code(code) ==
    IF ~code.syntax THEN "syntax"
    ELSE IF code.calls \cap DeniedCalls # {} THEN "call"
    ELSE IF code.dunder THEN "dunder"
    ELSE IF code.size > MaxCodeLen THEN "toolong"
    ELSE IF code.run = "none" THEN "norun"
    ELSE "ok"

\* namespace.get("run") after exec(): only a top-level def binds the name.
RunCallable(code) == code.run = "top"

\* ------------------------------------------------------------ sources
\* An identifier, by its pieces: "__" is a piece of its own, so that
\* str.startswith("__") is a test on the first piece.
iEval == <<"eval">>
iExecfile == <<"execfile">>
iImport == <<"__", "import", "__">>
iPrint == <<"print">>
iClass == <<"__", "class", "__">>
iPrivate == <<"_", "x">>
iRun == <<"run">>
iHelper == <<"helper">>

RECURSIVE Ident(_)
Ident(pieces) == IF pieces = <<>> THEN "" ELSE Head(pieces) \o Ident(Tail(pieces))

StartsWithDunder(pieces) == pieces # <<>> /\ Head(pieces) = "__"

\* The nodes of a parsed source the validator and exec() look at.
\*   Call       name: the function called; via: the callee is its bare name
\*              ("name", eval(x)) or an attribute of the builtins module
\*              ("attr", builtins.eval(x)), an ast.Attribute and not an ast.Name
\*   Attribute  name: the attribute; via: the access is read, assigned or deleted
\*   def        kind FunctionDef / AsyncFunctionDef, name, nargs: its parameters
\* level: the node is at module level ("top") or inside a function or a class body.
CallNodes ==
    [kind : {"Call"}, name : {iEval, iExecfile, iImport, iPrint}, via : {"name", "attr"},
     level : {"top", "function"}, nargs : {0}]
AttributeNodes ==
    [kind : {"Attribute"}, name : {iClass, iPrivate}, via : {"load", "store", "del"},
     level : {"top"}, nargs : {0}]
DefNodes ==
    [kind : {"FunctionDef", "AsyncFunctionDef"}, name : {iRun}, via : {"def"},
     level : {"top", "function", "class"}, nargs : {0, 1, 2}]
    \cup [kind : {"FunctionDef"}, name : {iHelper}, via : {"def"}, level : {"top"},
          nargs : {1}]
Nodes == CallNodes \cup AttributeNodes \cup DefNodes

SeqsUpTo(S, k) == UNION {[1..m -> S] : m \in 0..k}

\* A source text: whether ast.parse accepts it, len(code), and its nodes in the order
\* of the text.  A text that does not parse has no tree.
Sources ==
    {[syntax |-> sx, size |-> sz, nodes |-> ns] :
        sx \in BOOLEAN, sz \in {30, MaxCodeLen, MaxCodeLen + 1}, ns \in SeqsUpTo(Nodes, MaxNodes)}
    \ {src \in [syntax : {FALSE}, size : {30, MaxCodeLen, MaxCodeLen + 1},
                nodes : SeqsUpTo(Nodes, MaxNodes)] : src.nodes # <<>>}

NodesOf(src) == {src.nodes[i] : i \in DOMAIN src.nodes}

\* The attribute accesses of a source: the Attribute nodes, the callee of a call
\* through an attribute included.
AttributesOf(src) ==
    {n \in NodesOf(src) : n.kind = "Attribute" \/ (n.kind = "Call" /\ n.via = "attr")}

IsDef(n) == n.kind \in {"FunctionDef", "AsyncFunctionDef"}

\* The def statements that bind the module-level name run, in the order of the text.
TopRunDefs(src) ==
    LET Is(n) == IsDef(n) /\ n.name = iRun /\ n.level = "top"
    IN SelectSeq(src.nodes, Is)

\* A build whose visitor stops at function bodies.
Facts_TopLevelOnly(src) ==
    LET tops == TopRunDefs(src)
    IN [id |-> "src", syntax |-> src.syntax, size |-> src.size,
        calls |-> {Ident(n.name) : n \in {m \in NodesOf(src) :
                       m.kind = "Call" /\ m.via = "name" /\ m.level = "top"}},
        dunder |-> \E n \in AttributesOf(src) : StartsWithDunder(n.name),
        run |-> IF tops # <<>> THEN "top"
                ELSE IF \E n \in NodesOf(src) : IsDef(n) /\ n.name = iRun THEN "nested"
                ELSE "none",
        isAsync |-> tops # <<>> /\ tops[Len(tops)].kind = "AsyncFunctionDef",
        execOk |-> TRUE]

\* A build whose visit_Attribute looks at attributes that are read only.
Facts_ReadsOnly(src) ==
    LET tops == TopRunDefs(src)
    IN [id |-> "src", syntax |-> src.syntax, size |-> src.size,
        calls |-> {Ident(n.name) : n \in {m \in NodesOf(src) :
                       m.kind = "Call" /\ m.via = "name"}},
        dunder |-> \E n \in AttributesOf(src) :
                      n.kind = "Attribute" /\ n.via = "load" /\ StartsWithDunder(n.name),
        run |-> IF tops # <<>> THEN "top"
                ELSE IF \E n \in NodesOf(src) : IsDef(n) /\ n.name = iRun THEN "nested"
                ELSE "none",
        isAsync |-> tops # <<>> /\ tops[Len(tops)].kind = "AsyncFunctionDef",
        execOk |-> TRUE]

\* What the validator, exec() and the callback read from a source: the identifiers
\* called by bare name (visit_Call tests isinstance(node.func, ast.Name)), whether an
\* attribute begins with "__" (visit_Attribute, whatever the access does), whether a
\* def named run is at module level, only nested, or missing (ast.walk finds the def
\* at any depth, namespace.get("run") only the module-level one), and whether the
\* last module-level def of run is async.
Facts(src) ==
    LET tops == TopRunDefs(src)
    IN [id |-> "src", syntax |-> src.syntax, size |-> src.size,
        calls |-> {Ident(n.name) : n \in {m \in NodesOf(src) :
                       m.kind = "Call" /\ m.via = "name"}},
        dunder |-> \E n \in AttributesOf(src) : StartsWithDunder(n.name),
        run |-> IF tops # <<>> THEN "top"
                ELSE IF \E n \in NodesOf(src) : IsDef(n) /\ n.name = iRun THEN "nested"
                ELSE "none",
        isAsync |-> tops # <<>> /\ tops[Len(tops)].kind = "AsyncFunctionDef",
        execOk |-> TRUE]

\* No source has been given to the validator yet.
NoSource == [syntax |-> TRUE, size |-> 0, nodes |-> <<>>]
NotValidated == [src |-> NoSource, res |-> "none"]

\* ------------------------------------------------------------ descriptions
DefaultDesc(n) == [text |-> "Dynamic command: " \o n, len |-> DefaultDescLen]
DescOrDefault(description, n) == IF description.len = 0 THEN DefaultDesc(n) ELSE description
\* A build that stores descriptions uncut.
Truncate_Keep(d) == d

Truncate(d) == [d EXCEPT !.len = IF @ > DescLimit THEN DescLimit ELSE @]

VARIABLES member, root, bins, tree, dcache, gcache, alias, procs, boot, regLog, started,
          faults, inv, abandoned, lanes, ld, val, req, ctx

vars == <<member, root, bins, tree, dcache, gcache, alias, procs, boot, regLog, started,
          faults, inv, abandoned, lanes, ld, val, req, ctx>>

\* ------------------------------------------------------------ invocations
\* What the run function of an invoked command does when it is called:
\*   returns        it ends within the limit and returns a result
\*   sleeps         it stays suspended (async def) or blocked (def) beyond the limit
\*   spins          an async def that computes beyond the limit without awaiting
\*   raises         it raises an Exception other than asyncio.TimeoutError
\*   raisesTimeout  it raises asyncio.TimeoutError within the limit
\*   exits          it raises a BaseException that is no Exception (SystemExit)
Behaviours == {"returns", "sleeps", "spins", "raises", "raisesTimeout", "exits"}
Slots == 1..MaxInv
IdleInv == [st |-> "idle", isAsync |-> TRUE, beh |-> "returns", out |-> "none"]
NoInvocations == Restrict([i \in Slots |-> IdleInv], Slots)

\* Threads of the default executor that are running a handler, abandoned ones included.
Busy == abandoned + Cardinality({i \in Slots : ~inv[i].isAsync /\ inv[i].st = "running"})

\* The except clauses of callback, by the class of what the handler raised.
Caught(beh) ==
    CASE beh = "raisesTimeout" -> "Timeout"
      [] beh = "raises" -> "Failure"
      [] OTHER -> "Escaped"

RegistryVars == <<member, root, bins, tree, dcache, gcache, alias, procs, boot, regLog,
                  started, faults, lanes, ld, val, req, ctx>>

\* The program state a step computes on: the dispatch table, the two caches, the
\* remote bins, the coroutines and the calls of register_dynamic_command the step made.
Cur == [tree |-> tree, dcache |-> dcache, gcache |-> gcache, alias |-> alias,
        bins |-> bins, root |-> root, procs |-> procs, boot |-> boot, regLog |-> {}]

Snapshot(S) == [tree |-> S.tree, dcache |-> S.dcache, gcache |-> S.gcache, bins |-> S.bins]

\* discord.utils.get(bot.guilds, id=...) is None for a guild the bot is not in, and
\* the tree then works on its global commands.
Scope(g) == IF g \in member THEN g ELSE Global

get_command(S, n, sc) == Opt(S.tree[sc], n)
remove_command(S, n, sc) == [S EXCEPT !.tree[sc] = Pop(@, n)]
add_command(S, n, sc, cmd) == [S EXCEPT !.tree[sc] = Put(@, n, cmd)]

\* The handler the platform calls for command n used in guild g.
Dispatch(S, g, n) ==
    IF n \in DOMAIN S.tree[g] THEN {S.tree[g][n]} ELSE Opt(S.tree[Global], n)

DcOf(S, g) == IF g \in DOMAIN S.dcache THEN S.dcache[g] ELSE EmptyDict

\* list_commands: the fields of the embed, name -> description.
list_commands(S, g) ==
    LET d == DcOf(S, g)
    IN Restrict([n \in DOMAIN d |-> d[n].description], DOMAIN d)

\* A build whose cache write keeps the entry a name already has.
CacheSet_KeepFirst(S, g, n, e) ==
    IF n \in DOMAIN DcOf(S, g) THEN S
    ELSE LET d == Put(DcOf(S, g), n, e)
         IN [S EXCEPT !.dcache = Put(@, g, d),
                      !.gcache = IF g \in S.alias THEN [@ EXCEPT ![g].dc = d] ELSE @]

\* dynamic_commands_cache[g][n] = e, creating the guild's dict when missing.  After
\* load_all_from_bin that dict is the very object held by the cached document.
CacheSet(S, g, n, e) ==
    LET d == Put(DcOf(S, g), n, e)
    IN [S EXCEPT !.dcache = Put(@, g, d),
                 !.gcache = IF g \in S.alias THEN [@ EXCEPT ![g].dc = d] ELSE @]

CachePop(S, g, n) ==
    IF g \notin DOMAIN S.dcache THEN S
    ELSE LET d == Pop(S.dcache[g], n)
         IN [S EXCEPT !.dcache[g] = d,
                      !.gcache = IF g \in S.alias THEN [@ EXCEPT ![g].dc = d] ELSE @]

\* ------------------------------------------------------------ registration
\* A build that removes the existing command before it validates the new source.
register_dynamic_command_RemoveFirst(S, g, n, code, description, addOk) ==
    LET v == validate_user_code(code)
        sc == Scope(g)
        removed == IF get_command(S, n, sc) # {} THEN remove_command(S, n, sc) ELSE S
        desc == Truncate(DescOrDefault(description, n))
        added == add_command(removed, n, sc, Entry(code, desc))
    IN IF v # "ok" THEN [st |-> removed, ok |-> FALSE, err |-> v]
       ELSE IF ~code.execOk THEN [st |-> removed, ok |-> FALSE, err |-> "exec"]
       ELSE IF ~RunCallable(code) THEN [st |-> removed, ok |-> FALSE, err |-> "nocallable"]
       ELSE IF ~addOk THEN [st |-> removed, ok |-> FALSE, err |-> "add"]
       ELSE [st |-> CacheSet(added, g, n, Entry(code, desc)), ok |-> TRUE, err |-> "none"]

\* A build that installs a command without calling validate_user_code.
register_dynamic_command_NoValidate(S, g, n, code, description, addOk) ==
    LET sc == Scope(g)
        removed == IF get_command(S, n, sc) # {} THEN remove_command(S, n, sc) ELSE S
        desc == Truncate(DescOrDefault(description, n))
        added == add_command(removed, n, sc, Entry(code, desc))
    IN IF ~code.execOk THEN [st |-> S, ok |-> FALSE, err |-> "exec"]
       ELSE IF ~RunCallable(code) THEN [st |-> S, ok |-> FALSE, err |-> "nocallable"]
       ELSE IF ~addOk THEN [st |-> removed, ok |-> FALSE, err |-> "add"]
       ELSE [st |-> CacheSet(added, g, n, Entry(code, desc)), ok |-> TRUE, err |-> "none"]

register_dynamic_command(S, g, n, code, description, addOk) ==
    LET v == validate_user_code(code)
        sc == Scope(g)
        removed == IF get_command(S, n, sc) # {} THEN remove_command(S, n, sc) ELSE S
        desc == Truncate(DescOrDefault(description, n))
        added == add_command(removed, n, sc, Entry(code, desc))
    IN IF v # "ok" THEN [st |-> S, ok |-> FALSE, err |-> v]
       ELSE IF ~code.execOk THEN [st |-> S, ok |-> FALSE, err |-> "exec"]
       ELSE IF ~RunCallable(code) THEN [st |-> S, ok |-> FALSE, err |-> "nocallable"]
       ELSE IF ~addOk THEN [st |-> removed, ok |-> FALSE, err |-> "add"]
       ELSE [st |-> CacheSet(added, g, n, Entry(code, desc)), ok |-> TRUE, err |-> "none"]

\* A call of register_dynamic_command, recorded with the state before and after it.
CallRegister(S, g, n, code, description, addOk) ==
    LET r == register_dynamic_command(S, g, n, code, description, addOk)
        rec == [g |-> g, n |-> n, code |-> code, description |-> description,
                ok |-> r.ok, err |-> r.err, pre |-> Snapshot(S), post |-> Snapshot(r.st)]
    IN [r EXCEPT !.st.regLog = S.regLog \cup {rec}]

\* ------------------------------------------------------------ coroutines
\* One admin interaction: the command, its arguments, where it is suspended, and the
\* guild_data object it holds (att: it is the cached object; otherwise doc is its
\* value, with dcLive when its "dynamic_commands" is the registry's dict).  wrote: it
\* has changed the dispatch table or a cache; had: the command it was asked to rename
\* had a handler in the dispatch table when it started; known: the command it was
\* asked to delete was in the registry when it started; failed: one of its storage
\* calls returned False; cfgs: the guilds of the root record it read and is writing
\* back.
IdleProc == [op |-> "none", pc |-> "idle", g |-> "", n1 |-> "", n2 |-> "", n |-> "",
             code |-> cStatic,
             desc |-> NoDesc, sop |-> "none", att |-> FALSE, doc |-> EmptyDoc,
             dcLive |-> FALSE, payload |-> EmptyDoc, res |-> "none", wrote |-> FALSE,
             had |-> FALSE, known |-> FALSE, failed |-> FALSE, cfgs |-> {}]

\* One call of load_guild_data followed request by request: the guild, the fetch it
\* is in (root: get_guild_bin_config, bin: the guild's document), the attempt of
\* _jsonbin_get's loop, the requests sent so far, how the last request ended, what
\* the call returned and whether it returned from the cache.
IdleLoad == [pc |-> "idle", g |-> "", attempt |-> 0, contacts |-> 0, last |-> "none",
             res |-> EmptyDoc, hit |-> FALSE, calls |-> 0]

\* One call of _jsonbin_get or _jsonbin_put followed attempt by attempt: the function,
\* the bin, the record to put, the pass of the loop, the requests sent, how many of
\* them were answered with success, and what the call returned (flag for
\* _jsonbin_put, doc for _jsonbin_get).
IdleReq == [fn |-> "none", pc |-> "idle", g |-> "", payload |-> EmptyDoc, attempt |-> 0,
            sent |-> 0, won |-> 0, flag |-> FALSE, doc |-> EmptyDoc, calls |-> 0]

\* One run of a command's callback followed to its responses: what run does
\*   result         returns a value that is true
\*   empty          returns None or another false value
\*   timeout        does not end within the limit
\*   raisesTimeout  raises asyncio.TimeoutError within the limit
\*   raises         raises another Exception
\* isDone: interaction.response.is_done(); acked: the platform has a response to the
\* interaction; byHandler: run responded itself; tried, completed, delivered: the
\* send_message calls the callback made, those that returned, and those the platform
\* took; escaped: an exception left the callback.
Outcomes == {"result", "empty", "timeout", "raisesTimeout", "raises"}
IdleCtx == [pc |-> "idle", outcome |-> "empty", isDone |-> FALSE, acked |-> FALSE,
            byHandler |-> FALSE, tried |-> 0, completed |-> 0, delivered |-> 0,
            escaped |-> FALSE, calls |-> 0]

Finish(S, p, res) ==
    [S EXCEPT !.procs[p] = [IdleProc EXCEPT !.op = S.procs[p].op, !.g = S.procs[p].g,
                                           !.n1 = S.procs[p].n1, !.n2 = S.procs[p].n2,
                                           !.had = S.procs[p].had, !.known = S.procs[p].known,
                                           !.failed = S.procs[p].failed, !.res = res]]

\* guild_cache[g] = <another object>: coroutines holding the old object keep it.
ReplaceDoc(S, g, doc) ==
    LET old == S.gcache[g]
        keep(q) == IF g \in DOMAIN S.gcache /\ S.procs[q].att /\ S.procs[q].g = g
                   THEN [S.procs[q] EXCEPT !.att = FALSE, !.doc = old,
                                           !.dcLive = (g \in S.alias)]
                   ELSE S.procs[q]
    IN [S EXCEPT !.gcache = Put(@, g, doc),
                 !.alias = @ \ {g},
                 !.procs = Restrict([q \in Procs |-> keep(q)], Procs)]

\* The value of the guild_data object coroutine p holds.
GuildData(S, p) ==
    LET r == S.procs[p]
    IN IF r.att THEN S.gcache[r.g]
       ELSE IF r.dcLive THEN [r.doc EXCEPT !.dc = DcOf(S, r.g)]
       ELSE r.doc

StoredEntry(r) == Entry(r.code, DescOrDefault(r.desc, r.n))

\* save_dynamic_command after load_guild_data returned: guild_data["dynamic_commands"][n]
\* = entry, then save_guild_data up to its first await.  fresh: load_guild_data
\* returned a new empty dict and not the cached object.
AfterLoadSave(S, p, fresh) ==
    LET r == S.procs[p]
        e == StoredEntry(r)
        inPlace == [S EXCEPT !.gcache[r.g] = DocWith(Put(@.dc, r.n, e)),
                             !.dcache = IF r.g \in S.alias
                                        THEN [@ EXCEPT ![r.g] = Put(@, r.n, e)] ELSE @]
        S1 == IF fresh THEN ReplaceDoc(S, r.g, DocWith(Put(EmptyDict, r.n, e))) ELSE inPlace
    IN [S1 EXCEPT !.procs[p].att = TRUE, !.procs[p].doc = EmptyDoc,
                  !.procs[p].dcLive = FALSE, !.procs[p].pc = "savecfg",
                  !.procs[p].wrote = TRUE]

save_dynamic_command(S, p, n, code, description) ==
    LET S1 == CacheSet(S, S.procs[p].g, n, Entry(code, DescOrDefault(description, n)))
        S2 == [S1 EXCEPT !.procs[p].n = n, !.procs[p].code = code,
                         !.procs[p].desc = description, !.procs[p].sop = "save",
                         !.procs[p].wrote = TRUE]
        g == S.procs[p].g
    IN IF g \in DOMAIN S2.gcache
       THEN AfterLoadSave(S2, p, ~S2.gcache[g].has)
       ELSE [S2 EXCEPT !.procs[p].pc = "loadcfg"]

\* What a command does once its storage call returned ok.
AfterStore(S0, p, ok, addFail) ==
    LET S == IF ok THEN S0 ELSE [S0 EXCEPT !.procs[p].failed = TRUE]
        r == S.procs[p]
        reg == CallRegister(S, r.g, r.n2, r.code, r.desc, r.n2 \notin addFail)
    IN CASE r.op \in {"create_command", "describe_command"} ->
              Finish(S, p, IF ok THEN "created" ELSE "warn_save")
         [] r.op = "delete_command" ->
              Finish(S, p, IF ok THEN "deleted" ELSE "warn_delete")
         [] r.op = "rename_command" /\ r.sop = "del" ->
              IF reg.ok THEN save_dynamic_command(reg.st, p, r.n2, r.code, r.desc)
              ELSE Finish(reg.st, p, "error_" \o reg.err)
         [] r.op = "rename_command" /\ r.sop = "save" -> Finish(S, p, "renamed")
         [] r.op = "setup_jsonbin" -> Finish(S, p, "configured")
         [] OTHER -> Finish(S, p, "updated")

\* delete_dynamic_command_from_store after load_guild_data returned.
AfterLoadDel(S, p, fresh, addFail) ==
    LET r == S.procs[p]
        has == ~fresh /\ S.gcache[r.g].has
        popped == [S EXCEPT !.gcache[r.g].dc = Pop(@, r.n),
                            !.dcache = IF r.g \in S.alias
                                       THEN [@ EXCEPT ![r.g] = Pop(@, r.n)] ELSE @,
                            !.procs[p].att = TRUE, !.procs[p].doc = EmptyDoc,
                            !.procs[p].dcLive = FALSE, !.procs[p].pc = "savecfg",
                            !.procs[p].wrote = TRUE]
    IN IF has THEN popped ELSE AfterStore(S, p, TRUE, addFail)

delete_dynamic_command_from_store(S, p, n, addFail) ==
    LET g == S.procs[p].g
        S1 == CachePop(S, g, n)
        S2 == [S1 EXCEPT !.procs[p].n = n, !.procs[p].sop = "del", !.procs[p].wrote = TRUE]
    IN IF g \in DOMAIN S2.gcache
       THEN AfterLoadDel(S2, p, ~S2.gcache[g].has, addFail)
       ELSE [S2 EXCEPT !.procs[p].pc = "loadcfg"]

AfterLoad(S, p, fresh, addFail) ==
    IF S.procs[p].sop = "save" THEN AfterLoadSave(S, p, fresh)
    ELSE AfterLoadDel(S, p, fresh, addFail)

\* load_guild_data resumed with the root record: no config caches {} and returns a new {}.
LoadCfgStep(S, p, cfg, addFail) ==
    IF cfg THEN [S EXCEPT !.procs[p].pc = "loadget"]
    ELSE AfterLoad(ReplaceDoc(S, S.procs[p].g, EmptyDoc), p, TRUE, addFail)

\* load_guild_data resumed with the bin's record ({} after three failed attempts).
LoadGetStep(S, p, getOk, addFail) ==
    LET g == S.procs[p].g
        data == IF getOk THEN S.bins[g] ELSE EmptyDoc
    IN AfterLoad(ReplaceDoc(S, g, data), p, FALSE, addFail)

\* save_guild_data resumed with the root record: json.dumps(record) is taken here.
SaveCfgStep(S, p, cfg, addFail) ==
    IF cfg THEN [S EXCEPT !.procs[p].payload = GuildData(S, p), !.procs[p].pc = "put"]
    ELSE AfterStore(S, p, FALSE, addFail)

\* A build whose _jsonbin_put leaves the record in the bin although every attempt
\* was answered with an error.
PutStep_WriteAnyway(S, p, putOk, addFail) ==
    AfterStore([S EXCEPT !.bins[S.procs[p].g] = S.procs[p].payload], p, putOk, addFail)

\* _jsonbin_put ends: one attempt was accepted, or all three failed.
PutStep(S, p, putOk, addFail) ==
    LET S1 == IF putOk THEN [S EXCEPT !.bins[S.procs[p].g] = S.procs[p].payload] ELSE S
    IN AfterStore(S1, p, putOk, addFail)

\* ------------------------------------------------------------ startup
\* dynamic_commands_cache[g] = guild_data["dynamic_commands"]: the registry's dict for
\* g becomes the cached document's own dict.
RebindDcache(S, g) ==
    LET keep(q) == IF ~S.procs[q].att /\ S.procs[q].dcLive /\ S.procs[q].g = g
                   THEN [S.procs[q] EXCEPT !.doc.dc = DcOf(S, g), !.dcLive = FALSE]
                   ELSE S.procs[q]
    IN [S EXCEPT !.procs = Restrict([q \in Procs |-> keep(q)], Procs),
                 !.dcache = Put(@, g, S.gcache[g].dc),
                 !.alias = @ \cup {g}]

\* The (guild, name) items of dynamic_commands_cache, in iteration order.
PairsOf(S) ==
    LET k == Len(NameOrder)
        all == [i \in 1..(Len(GuildOrder) * k) |->
                   <<GuildOrder[((i - 1) \div k) + 1], NameOrder[((i - 1) % k) + 1]>>]
        In(pr) == pr[1] \in DOMAIN S.dcache /\ pr[2] \in DOMAIN S.dcache[pr[1]]
    IN SelectSeq(all, In)

\* on_ready's loop: register every cached command; a failure is only logged.
RECURSIVE RegisterAll(_, _, _)
RegisterAll(S, pairs, addFail) ==
    IF pairs = <<>> THEN S
    ELSE LET g == Head(pairs)[1]
             n == Head(pairs)[2]
             data == S.dcache[g][n]
             r == CallRegister(S, g, n, data.code, data.description, n \notin addFail)
         IN RegisterAll(r.st, Tail(pairs), addFail)

\* A build whose load_all_from_bin leaves dynamic_commands_cache empty.
Loaded_NoRebind(S, g, fresh) ==
    IF fresh THEN ReplaceDoc(S, g, EmptyDoc) ELSE S

\* load_all_from_bin after load_guild_data(g) returned for the head of todo.
Loaded(S, g, fresh) ==
    LET S1 == IF fresh THEN ReplaceDoc(S, g, EmptyDoc) ELSE S
    IN IF S1.gcache[g].has THEN RebindDcache(S1, g) ELSE S1

\* The loop of load_all_from_bin from guild todo[1] on, up to its next await or, past
\* the last guild, through on_ready's registrations.
RECURSIVE BootLoop(_, _, _)
BootLoop(S, todo, addFail) ==
    IF todo = <<>>
    THEN [RegisterAll(S, PairsOf(S), addFail) EXCEPT !.boot = [pc |-> "done", todo |-> <<>>]]
    ELSE IF Head(todo) \in DOMAIN S.gcache
    THEN BootLoop(Loaded(S, Head(todo), ~S.gcache[Head(todo)].has), Tail(todo), addFail)
    ELSE [S EXCEPT !.boot = [pc |-> "lcfg", todo |-> todo]]

\* ------------------------------------------------------------ actions
Set(S) ==
    /\ tree' = S.tree
    /\ dcache' = S.dcache
    /\ gcache' = S.gcache
    /\ alias' = S.alias
    /\ bins' = S.bins
    /\ root' = S.root
    /\ procs' = S.procs
    /\ boot' = S.boot
    /\ regLog' = S.regLog

\* A step that awaited one network call (net: it succeeded) and may reach
\* bot.tree.add_command (addFail: the names it refuses) ends in S2; sure is where it
\* ends when the network call succeeds.  Only outcomes that change the step are
\* taken, and failures are counted against the budget.
Take(S2, sure, net, addFail) ==
    LET cost == (IF net THEN 0 ELSE 1) + Cardinality(addFail)
    IN /\ faults + cost <= MaxFaults
       /\ net \/ S2 # sure
       /\ \A n \in addFail : \E r \in S2.regLog : r.n = n /\ r.err = "add"
       /\ Set(S2)
       /\ faults' = faults + cost

\* get_guild_bin_config: the guild's entry of the root record ({} when the GET failed).
get_guild_bin_config(g, rootOk) == rootOk /\ g \in root

AdminOps == {"create_command", "describe_command", "delete_command", "rename_command",
             "rename_command_description"}

\* An admin command can be used once on_ready has synced the command tree.
CanStart(p, g) ==
    /\ boot.pc = "done"
    /\ procs[p].pc = "idle"
    /\ \A q \in Procs : q < p => procs[q].pc # "idle"
    /\ p <= lanes
    /\ started < MaxOps
    /\ g \in member

Begin(p, op, g, n1, n2, code, desc) ==
    [Cur EXCEPT !.procs[p] = [IdleProc EXCEPT !.op = op, !.g = g, !.n1 = n1, !.n = n1,
                                              !.n2 = n2, !.code = code, !.desc = desc]]

Started == started' = started + 1 /\ UNCHANGED <<member, inv, abandoned, lanes, ld, val, req, ctx>>
Stepped == UNCHANGED <<member, started, inv, abandoned, lanes, ld, val, req, ctx>>

\* The bin documents a previous run, or the bin's owner, may have left.
InitDocs == {EmptyDoc,
             DocWith([ping |-> Entry(cPong, dLong)]),
             DocWith([ping |-> Entry(cNested, dShort)])}
InitDocsLeft == {EmptyDoc, DocWith([help |-> Entry(cSync, dShort)])}

StaticCmd == Entry(cStatic, [text |-> "Bot help", len |-> 8])

\* The process has just started: only the static commands are in the tree.
InitRegistry ==
    /\ member = {"g1"}
    /\ root \in {{"g1"}, Guilds}
    /\ bins \in [Guilds -> InitDocs \cup InitDocsLeft]
    /\ bins["g1"] \in InitDocs
    /\ bins["g2"] \in InitDocsLeft
    /\ \A g \in Guilds \ root : bins[g] = EmptyDoc
    /\ tree = Restrict([sc \in Scopes |-> IF sc = Global THEN [help |-> StaticCmd]
                                            ELSE EmptyDict], Scopes)
    /\ dcache = EmptyDict
    /\ gcache = EmptyDict
    /\ alias = {}
    /\ procs = Restrict([p \in Procs |-> IdleProc], Procs)
    /\ boot = [pc |-> "init", todo |-> <<>>]
    /\ regLog = {}
    /\ started = 0
    /\ inv = NoInvocations
    /\ abandoned = 0
    /\ ld = IdleLoad
    /\ val = NotValidated
    /\ req = IdleReq
    /\ ctx = IdleCtx

\* The admin interactions of a run come one after the other.
Init == InitRegistry /\ lanes = 1 /\ faults = 0

\* Up to NProcs admin interactions are handled at the same time.
ConcInit == InitRegistry /\ lanes = NProcs /\ faults = MaxFaults - MaxConcFaults

\* on_ready: load_all_from_bin resets the caches and asks for the root record.
on_ready ==
    /\ boot.pc = "init"
    /\ Set([Cur EXCEPT !.dcache = EmptyDict, !.gcache = EmptyDict,
                       !.boot = [pc |-> "root", todo |-> <<>>]])
    /\ UNCHANGED <<member, started, faults, inv, abandoned, lanes, ld, val, req, ctx>>

BootRootStep(S, rootOk, addFail) ==
    LET In(g) == rootOk /\ g \in root
    IN BootLoop(S, SelectSeq(GuildOrder, In), addFail)

BootRoot ==
    /\ boot.pc = "root"
    /\ \E net \in BOOLEAN, addFail \in SUBSET Names :
          Take(BootRootStep(Cur, net, addFail),
               BootRootStep(Cur, TRUE, addFail), net, addFail)
    /\ Stepped

BootCfgStep(S, rootOk, addFail) ==
    LET g == Head(S.boot.todo)
    IN IF get_guild_bin_config(g, rootOk)
       THEN [S EXCEPT !.boot.pc = "lget"]
       ELSE BootLoop(Loaded(S, g, TRUE), Tail(S.boot.todo), addFail)

BootCfg ==
    /\ boot.pc = "lcfg"
    /\ \E net \in BOOLEAN, addFail \in SUBSET Names :
          Take(BootCfgStep(Cur, net, addFail),
               BootCfgStep(Cur, TRUE, addFail), net, addFail)
    /\ Stepped

BootGetStep(S, getOk, addFail) ==
    LET g == Head(S.boot.todo)
        data == IF getOk THEN S.bins[g] ELSE EmptyDoc
    IN BootLoop(Loaded(ReplaceDoc(S, g, data), g, FALSE), Tail(S.boot.todo), addFail)

BootGet ==
    /\ boot.pc = "lget"
    /\ \E net \in BOOLEAN, addFail \in SUBSET Names :
          Take(BootGetStep(Cur, net, addFail),
               BootGetStep(Cur, TRUE, addFail), net, addFail)
    /\ Stepped

\* A build whose admin commands empty the guild's scope of the dispatch table before
\* they look at the caller's permissions.
AdminOnly_ActsFirst(p) ==
    \E g \in Guilds, op \in AdminOps :
       /\ CanStart(p, g)
       /\ Set(Finish([Begin(p, op, g, "", "", cStatic, NoDesc) EXCEPT !.tree[g] = EmptyDict],
                     p, "denied"))
       /\ Started
       /\ UNCHANGED faults

\* is_admin(interaction) is false: the command answers and returns.
AdminOnly(p) ==
    \E g \in Guilds, op \in AdminOps :
       /\ CanStart(p, g)
       /\ Set(Finish(Begin(p, op, g, "", "", cStatic, NoDesc), p, "denied"))
       /\ Started
       /\ UNCHANGED faults

create_command(p) ==
    \E g \in Guilds, n \in Names, code \in Codes :
       /\ CanStart(p, g)
       /\ Set([Begin(p, "create_command", g, n, "", code, NoDesc) EXCEPT !.procs[p].pc = "cfg0"])
       /\ Started
       /\ UNCHANGED faults

describe_command(p) ==
    \E g \in Guilds, n \in Names, code \in Codes, d \in Descs :
       /\ CanStart(p, g)
       /\ Set([Begin(p, "describe_command", g, n, "", code, d) EXCEPT !.procs[p].pc = "cfg0"])
       /\ Started
       /\ UNCHANGED faults

\* create_command / describe_command resumed with the guild's bin config.
ConfigCheckedStep(S, p, rootOk) ==
    IF get_guild_bin_config(S.procs[p].g, rootOk)
    THEN [S EXCEPT !.procs[p].pc = "reg"]
    ELSE Finish(S, p, "nosetup")

ConfigChecked(p) ==
    /\ procs[p].pc = "cfg0"
    /\ \E net \in BOOLEAN, addFail \in SUBSET Names :
          Take(ConfigCheckedStep(Cur, p, net),
               ConfigCheckedStep(Cur, p, TRUE), net, addFail)
    /\ Stepped

\* A build in which register_dynamic_command waits while another admin command is in
\* flight.
RegisterAndSaveStep_GlobalLock(S, p, addFail) ==
    IF \E q \in Procs \ {p} : S.procs[q].pc # "idle" THEN S
    ELSE LET r == S.procs[p]
             reg == CallRegister(S, r.g, r.n, r.code, r.desc, r.n \notin addFail)
         IN IF reg.ok
            THEN save_dynamic_command(reg.st, p, r.n, r.code, r.desc)
            ELSE Finish(reg.st, p, "error_" \o reg.err)

\* create_command / describe_command: register, then save up to the first await.
RegisterAndSaveStep(S, p, addFail) ==
    LET r == S.procs[p]
        reg == CallRegister(S, r.g, r.n, r.code, r.desc, r.n \notin addFail)
    IN IF reg.ok
       THEN save_dynamic_command(reg.st, p, r.n, r.code, r.desc)
       ELSE Finish(reg.st, p, "error_" \o reg.err)

RegisterAndSave(p) ==
    /\ procs[p].pc = "reg"
    /\ \E net \in BOOLEAN, addFail \in SUBSET Names :
          Take(RegisterAndSaveStep(Cur, p, addFail),
               RegisterAndSaveStep(Cur, p, addFail), net, addFail)
    /\ Stepped

\* A build whose delete_command leaves the handler in the command tree.
delete_command_step_KeepHandler(S, p, g, n) ==
    LET S0 == [S EXCEPT !.procs[p].known = (n \in DOMAIN DcOf(S, g)),
                        !.procs[p].had = (get_command(S, n, g) # {})]
    IN delete_dynamic_command_from_store(S0, p, n, {})

delete_command_step(S, p, g, n) ==
    LET S0 == [S EXCEPT !.procs[p].known = (n \in DOMAIN DcOf(S, g)),
                        !.procs[p].had = (get_command(S, n, g) # {})]
        S1 == IF get_command(S0, n, g) # {} THEN remove_command(S0, n, g) ELSE S0
    IN delete_dynamic_command_from_store(S1, p, n, {})

delete_command(p) ==
    \E g \in Guilds, n \in Names :
       /\ CanStart(p, g)
       /\ Set(delete_command_step(Begin(p, "delete_command", g, n, "", cStatic, NoDesc), p, g, n))
       /\ Started
       /\ UNCHANGED faults

\* A build that answers a rename of an unknown name like a successful one.
rename_command_step_NoCheck(S, p, g, old, new, addFail) ==
    LET found == g \in DOMAIN S.dcache /\ old \in DOMAIN S.dcache[g]
        cmd == S.dcache[g][old]
        S0 == [S EXCEPT !.procs[p].code = cmd.code, !.procs[p].desc = cmd.description,
                        !.procs[p].had = (get_command(S, old, g) # {})]
        S1 == IF get_command(S0, old, g) # {} THEN remove_command(S0, old, g) ELSE S0
    IN IF found THEN delete_dynamic_command_from_store(S1, p, old, addFail)
       ELSE Finish(S, p, "renamed")

rename_command_step(S, p, g, old, new, addFail) ==
    LET found == g \in DOMAIN S.dcache /\ old \in DOMAIN S.dcache[g]
        cmd == S.dcache[g][old]
        S0 == [S EXCEPT !.procs[p].code = cmd.code, !.procs[p].desc = cmd.description,
                        !.procs[p].had = (get_command(S, old, g) # {})]
        S1 == IF get_command(S0, old, g) # {} THEN remove_command(S0, old, g) ELSE S0
    IN IF found THEN delete_dynamic_command_from_store(S1, p, old, addFail)
       ELSE Finish(S, p, "notfound")

rename_command(p) ==
    \E g \in Guilds, old \in Names, new \in Names :
       /\ CanStart(p, g)
       /\ \E addFail \in SUBSET Names :
             LET S0 == Begin(p, "rename_command", g, old, new, cStatic, NoDesc)
                 S2 == rename_command_step(S0, p, g, old, new, addFail)
             IN Take(S2, S2, TRUE, addFail)
       /\ Started

rename_command_description_step(S, p, g, n, d, addFail) ==
    LET found == g \in DOMAIN S.dcache /\ n \in DOMAIN S.dcache[g]
        code == S.dcache[g][n].code
        S0 == [S EXCEPT !.procs[p].code = code, !.procs[p].desc = d, !.procs[p].wrote = TRUE]
        S1 == IF get_command(S0, n, g) # {} THEN remove_command(S0, n, g) ELSE S0
        reg == CallRegister(S1, g, n, code, d, n \notin addFail)
    IN IF ~found THEN Finish(S, p, "notfound")
       ELSE IF reg.ok THEN save_dynamic_command(reg.st, p, n, code, d)
       ELSE Finish(reg.st, p, "error_" \o reg.err)

rename_command_description(p) ==
    \E g \in Guilds, n \in Names, d \in Descs :
       /\ CanStart(p, g)
       /\ \E addFail \in SUBSET Names :
             LET S0 == Begin(p, "rename_command_description", g, n, "", cStatic, NoDesc)
                 S2 == rename_command_description_step(S0, p, g, n, d, addFail)
             IN Take(S2, S2, TRUE, addFail)
       /\ Started

\* setup_jsonbin: is_owner holds; the credentials are tried with a GET of the bin.
setup_jsonbin(p) ==
    \E g \in Guilds :
       /\ CanStart(p, g)
       /\ Set([Begin(p, "setup_jsonbin", g, "", "", cStatic, NoDesc)
                   EXCEPT !.procs[p].pc = "stest"])
       /\ Started
       /\ UNCHANGED faults

SetupTestStep(S, p, getOk) ==
    IF getOk THEN [S EXCEPT !.procs[p].pc = "sroot"] ELSE Finish(S, p, "badbin")

SetupTested(p) ==
    /\ procs[p].pc = "stest"
    /\ \E net \in BOOLEAN, addFail \in SUBSET Names :
          Take(SetupTestStep(Cur, p, net),
               SetupTestStep(Cur, p, TRUE), net, addFail)
    /\ Stepped

\* save_guild_bin_config resumed with the root record ({} after three failed
\* attempts): the guild's entry is set in what was read.
SetupRootStep(S, p, rootOk) ==
    [S EXCEPT !.procs[p].cfgs = (IF rootOk THEN S.root ELSE {}) \cup {S.procs[p].g},
              !.procs[p].pc = "sput"]

SetupRoot(p) ==
    /\ procs[p].pc = "sroot"
    /\ \E net \in BOOLEAN, addFail \in SUBSET Names :
          Take(SetupRootStep(Cur, p, net),
               SetupRootStep(Cur, p, TRUE), net, addFail)
    /\ Stepped

\* save_root_record ended: on success guild_cache[g] = {} and save_guild_data(g, {})
\* runs up to its first await.
SetupRootPutStep(S, p, putOk) ==
    LET g == S.procs[p].g
        S1 == ReplaceDoc([S EXCEPT !.root = S.procs[p].cfgs], g, EmptyDoc)
    IN IF putOk
       THEN [S1 EXCEPT !.procs[p].att = TRUE, !.procs[p].doc = EmptyDoc,
                       !.procs[p].dcLive = FALSE, !.procs[p].sop = "setup",
                       !.procs[p].pc = "savecfg", !.procs[p].wrote = TRUE]
       ELSE Finish(S, p, "cfg_failed")

SetupRootPut(p) ==
    /\ procs[p].pc = "sput"
    /\ \E net \in BOOLEAN, addFail \in SUBSET Names :
          Take(SetupRootPutStep(Cur, p, net),
               SetupRootPutStep(Cur, p, TRUE), net, addFail)
    /\ Stepped

LoadCfg(p) ==
    /\ procs[p].pc = "loadcfg"
    /\ \E net \in BOOLEAN, addFail \in SUBSET Names :
          Take(LoadCfgStep(Cur, p, get_guild_bin_config(procs[p].g, net), addFail),
               LoadCfgStep(Cur, p, get_guild_bin_config(procs[p].g, TRUE), addFail), net, addFail)
    /\ Stepped

LoadGet(p) ==
    /\ procs[p].pc = "loadget"
    /\ \E net \in BOOLEAN, addFail \in SUBSET Names :
          Take(LoadGetStep(Cur, p, net, addFail),
               LoadGetStep(Cur, p, TRUE, addFail), net, addFail)
    /\ Stepped

SaveCfg(p) ==
    /\ procs[p].pc = "savecfg"
    /\ \E net \in BOOLEAN, addFail \in SUBSET Names :
          Take(SaveCfgStep(Cur, p, get_guild_bin_config(procs[p].g, net), addFail),
               SaveCfgStep(Cur, p, get_guild_bin_config(procs[p].g, TRUE), addFail), net, addFail)
    /\ Stepped

PutDone(p) ==
    /\ procs[p].pc = "put"
    /\ \E net \in BOOLEAN, addFail \in SUBSET Names :
          Take(PutStep(Cur, p, net, addFail),
               PutStep(Cur, p, TRUE, addFail), net, addFail)
    /\ Stepped

Next ==
    \/ on_ready
    \/ BootRoot
    \/ BootCfg
    \/ BootGet
    \/ \E p \in Procs : AdminOnly(p)
    \/ \E p \in Procs : create_command(p)
    \/ \E p \in Procs : describe_command(p)
    \/ \E p \in Procs : ConfigChecked(p)
    \/ \E p \in Procs : RegisterAndSave(p)
    \/ \E p \in Procs : delete_command(p)
    \/ \E p \in Procs : rename_command(p)
    \/ \E p \in Procs : rename_command_description(p)
    \/ \E p \in Procs : setup_jsonbin(p)
    \/ \E p \in Procs : SetupTested(p)
    \/ \E p \in Procs : SetupRoot(p)
    \/ \E p \in Procs : SetupRootPut(p)
    \/ \E p \in Procs : LoadCfg(p)
    \/ \E p \in Procs : LoadGet(p)
    \/ \E p \in Procs : SaveCfg(p)
    \/ \E p \in Procs : PutDone(p)

Spec == Init /\ [][Next]_vars

ConcSpec == ConcInit /\ [][Next]_vars

\* The bot is in both guilds, both are configured, and up to NProcs admin interactions
\* are handled at the same time.
TenantsInit ==
    /\ member = Guilds
    /\ root = Guilds
    /\ bins = ("g1" :> DocWith([ping |-> Entry(cPong, dShort)])) @@ ("g2" :> EmptyDoc)
    /\ tree = Restrict([sc \in Scopes |-> IF sc = Global THEN [help |-> StaticCmd]
                                            ELSE EmptyDict], Scopes)
    /\ dcache = EmptyDict
    /\ gcache = EmptyDict
    /\ alias = {}
    /\ procs = Restrict([p \in Procs |-> IdleProc], Procs)
    /\ boot = [pc |-> "init", todo |-> <<>>]
    /\ regLog = {}
    /\ started = 0
    /\ inv = NoInvocations
    /\ abandoned = 0
    /\ ld = IdleLoad
    /\ val = NotValidated
    /\ req = IdleReq
    /\ ctx = IdleCtx
    /\ lanes = NProcs
    /\ faults = MaxFaults - MaxConcFaults

TenantsSpec == TenantsInit /\ [][Next]_vars

\* The bot is in both guilds, only g1 has been configured, and up to NProcs admin
\* interactions are handled at the same time.
SharedRootInit ==
    /\ member = Guilds
    /\ root = {"g1"}
    /\ bins = ("g1" :> DocWith([ping |-> Entry(cPong, dShort)])) @@ ("g2" :> EmptyDoc)
    /\ tree = Restrict([sc \in Scopes |-> IF sc = Global THEN [help |-> StaticCmd]
                                            ELSE EmptyDict], Scopes)
    /\ dcache = EmptyDict
    /\ gcache = EmptyDict
    /\ alias = {}
    /\ procs = Restrict([p \in Procs |-> IdleProc], Procs)
    /\ boot = [pc |-> "init", todo |-> <<>>]
    /\ regLog = {}
    /\ started = 0
    /\ inv = NoInvocations
    /\ abandoned = 0
    /\ ld = IdleLoad
    /\ val = NotValidated
    /\ req = IdleReq
    /\ ctx = IdleCtx
    /\ lanes = NProcs
    /\ faults = MaxFaults - MaxConcFaults

SharedRootSpec == SharedRootInit /\ [][Next]_vars

\* ------------------------------------------------------------ callback
\* A build whose callback calls a blocking run itself, on the event loop's thread.
Invoke_OnLoop(i) ==
    /\ inv[i].st = "idle"
    /\ \A j \in Slots : j < i => inv[j].st # "idle"
    /\ \E isAsync \in BOOLEAN, beh \in Behaviours :
          /\ beh = "spins" => isAsync
          /\ inv' = [inv EXCEPT ![i] = [st |-> "running",
                                        isAsync |-> isAsync, beh |-> beh, out |-> "none"]]
    /\ UNCHANGED abandoned
    /\ UNCHANGED RegistryVars

\* A member uses a dynamic command: the platform calls its callback, which awaits the
\* coroutine under wait_for or hands the function to the default executor.
Invoke(i) ==
    /\ inv[i].st = "idle"
    /\ \A j \in Slots : j < i => inv[j].st # "idle"
    /\ \E isAsync \in BOOLEAN, beh \in Behaviours :
          /\ beh = "spins" => isAsync
          /\ inv' = [inv EXCEPT ![i] = [st |-> IF isAsync THEN "running" ELSE "queued",
                                        isAsync |-> isAsync, beh |-> beh, out |-> "none"]]
    /\ UNCHANGED abandoned
    /\ UNCHANGED RegistryVars

\* run_in_executor: a free thread of the pool takes the function.
WorkerTake(i) ==
    /\ inv[i].st = "queued"
    /\ Busy < PoolSize
    /\ inv' = [inv EXCEPT ![i].st = "running"]
    /\ UNCHANGED abandoned
    /\ UNCHANGED RegistryVars

\* The handler returns its result within the limit.
Return(i) ==
    /\ inv[i].st = "running"
    /\ inv[i].beh = "returns"
    /\ inv' = [inv EXCEPT ![i].st = "done", ![i].out = "Success"]
    /\ UNCHANGED abandoned
    /\ UNCHANGED RegistryVars

\* The coroutine gives the loop no chance to run the timer before it returns.
Spin(i) ==
    /\ inv[i].st = "running"
    /\ inv[i].beh = "spins"
    /\ inv' = [inv EXCEPT ![i].st = "done", ![i].out = "Success"]
    /\ UNCHANGED abandoned
    /\ UNCHANGED RegistryVars

\* The handler raises.
Raise(i) ==
    /\ inv[i].st = "running"
    /\ inv[i].beh \in {"raises", "raisesTimeout", "exits"}
    /\ inv' = [inv EXCEPT ![i].st = "done", ![i].out = Caught(inv[i].beh)]
    /\ UNCHANGED abandoned
    /\ UNCHANGED RegistryVars

\* wait_for's timer fires: the coroutine is cancelled; a thread that runs the function
\* cannot be cancelled and keeps its place in the pool; a function still waiting for a
\* thread (every thread held by a handler that outlasts the limit) is never run.
Expire(i) ==
    /\ \/ inv[i].st = "running" /\ inv[i].beh = "sleeps"
       \/ /\ inv[i].st = "queued"
          /\ Busy = PoolSize
          /\ \A j \in Slots : ~inv[j].isAsync /\ inv[j].st = "running" => inv[j].beh = "sleeps"
    /\ inv' = [inv EXCEPT ![i].st = "done", ![i].out = "Timeout"]
    /\ abandoned' = IF ~inv[i].isAsync /\ inv[i].st = "running" THEN abandoned + 1
                    ELSE abandoned
    /\ UNCHANGED RegistryVars

\* An abandoned function finally returns and frees its thread.
AbandonedEnds ==
    /\ abandoned > 0
    /\ abandoned' = abandoned - 1
    /\ UNCHANGED inv
    /\ UNCHANGED RegistryVars

\* The registry after a start that loaded one command, with no admin command running.
SandboxInit ==
    /\ member = {"g1"}
    /\ root = {"g1"}
    /\ bins = ("g1" :> DocWith([ping |-> Entry(cPong, dShort)])) @@ ("g2" :> EmptyDoc)
    /\ tree = Restrict([sc \in Scopes |->
                          CASE sc = Global -> [help |-> StaticCmd]
                            [] sc = "g1" -> [ping |-> Entry(cPong, dShort)]
                            [] OTHER -> EmptyDict], Scopes)
    /\ dcache = [g1 |-> [ping |-> Entry(cPong, dShort)]]
    /\ gcache = [g1 |-> DocWith([ping |-> Entry(cPong, dShort)])]
    /\ alias = {"g1"}
    /\ procs = Restrict([p \in Procs |-> IdleProc], Procs)
    /\ boot = [pc |-> "done", todo |-> <<>>]
    /\ regLog = {}
    /\ started = 0
    /\ faults = 0
    /\ inv = NoInvocations
    /\ abandoned = 0
    /\ lanes = 1
    /\ ld = IdleLoad
    /\ val = NotValidated
    /\ req = IdleReq
    /\ ctx = IdleCtx

SandboxNext ==
    \/ \E i \in Slots : Invoke(i)
    \/ \E i \in Slots : WorkerTake(i)
    \/ \E i \in Slots : Return(i)
    \/ \E i \in Slots : Spin(i)
    \/ \E i \in Slots : Raise(i)
    \/ \E i \in Slots : Expire(i)
    \/ AbandonedEnds

SandboxSpec == SandboxInit /\ [][SandboxNext]_vars

\* ------------------------------------------------------------ load_guild_data
LoadVars == <<member, root, bins, tree, dcache, alias, procs, boot, regLog, started,
              faults, inv, abandoned, lanes, val, req, ctx>>

LoadCur == [ld |-> ld, gcache |-> gcache, root |-> root, bins |-> bins]

\* load_guild_data up to its first request: a cached guild returns at once.
load_guild_data_step(L, g) ==
    LET l == [IdleLoad EXCEPT !.g = g, !.calls = L.ld.calls + 1]
    IN IF g \in DOMAIN L.gcache
       THEN [L EXCEPT !.ld = [l EXCEPT !.res = L.gcache[g], !.hit = TRUE]]
       ELSE [L EXCEPT !.ld = [l EXCEPT !.pc = "root"]]

\* _jsonbin_get returned to load_guild_data: the root record (or {}) gives the guild's
\* config, the guild's record (or {}) is cached and returned.
LoadGot(L, ok) ==
    LET g == L.ld.g
        data == IF ok THEN L.bins[g] ELSE EmptyDoc
    IN IF L.ld.pc = "root"
       THEN IF ok /\ g \in L.root
            THEN [L EXCEPT !.ld.pc = "bin", !.ld.attempt = 0]
            ELSE [L EXCEPT !.gcache = Put(@, g, EmptyDoc), !.ld.pc = "idle",
                           !.ld.res = EmptyDoc]
       ELSE [L EXCEPT !.gcache = Put(@, g, data), !.ld.pc = "idle", !.ld.res = data]

\* A build whose _jsonbin_get gives up after the first request that fails.
jsonbin_get_attempt_Once(L, ok) ==
    LoadGot([L EXCEPT !.ld.contacts = @ + 1, !.ld.last = IF ok THEN "ok" ELSE "fail"], ok)

\* One pass of _jsonbin_get's loop: the request is answered with status 200, or it is
\* answered with another status or raises, and the loop goes on or is over.
jsonbin_get_attempt(L, ok) ==
    LET L1 == [L EXCEPT !.ld.contacts = @ + 1, !.ld.last = IF ok THEN "ok" ELSE "fail"]
    IN IF ok THEN LoadGot(L1, TRUE)
       ELSE IF L.ld.attempt + 1 < GetAttempts THEN [L1 EXCEPT !.ld.attempt = @ + 1]
       ELSE LoadGot(L1, FALSE)

LoadSet(L) ==
    /\ ld' = L.ld
    /\ gcache' = L.gcache
    /\ UNCHANGED LoadVars

LoadCall ==
    \E g \in Guilds :
       /\ ld.pc = "idle"
       /\ ld.calls < MaxLoads
       /\ LoadSet(load_guild_data_step(LoadCur, g))

GetAnswered ==
    /\ ld.pc # "idle"
    /\ LoadSet(jsonbin_get_attempt(LoadCur, TRUE))

GetRefused ==
    /\ ld.pc # "idle"
    /\ LoadSet(jsonbin_get_attempt(LoadCur, FALSE))

\* The process has started and on_ready has not loaded anything yet.
LoadInit == InitRegistry /\ lanes = 1 /\ faults = 0

LoadNext ==
    \/ LoadCall
    \/ GetAnswered
    \/ GetRefused

LoadSpec == LoadInit /\ [][LoadNext]_vars

\* ------------------------------------------------------------ validate_user_code
ValidatorVars == <<member, root, bins, tree, dcache, gcache, alias, procs, boot, regLog,
                   started, faults, inv, abandoned, lanes, ld, req, ctx>>

\* A source arrives at register_dynamic_command.
ValidatorInit ==
    /\ InitRegistry /\ lanes = 1 /\ faults = 0
    /\ bins = [g \in Guilds |-> EmptyDoc]
    /\ root = {"g1"}

Submit ==
    /\ val = NotValidated
    /\ \E src \in Sources : val' = [src |-> src, res |-> "none"]
    /\ UNCHANGED ValidatorVars

\* validate_user_code(code) returns, or raises UnsafeCodeError with one of its messages.
Validate ==
    /\ val.res = "none"
    /\ val.src # NoSource
    /\ val' = [val EXCEPT !.res = validate_user_code(Facts(val.src))]
    /\ UNCHANGED ValidatorVars

ValidatorNext ==
    \/ Submit
    \/ Validate

ValidatorSpec == ValidatorInit /\ [][ValidatorNext]_vars

\* ------------------------------------------------------------ _jsonbin_get, _jsonbin_put
JsonbinVars == <<member, root, tree, dcache, gcache, alias, procs, boot, regLog, started,
                 faults, inv, abandoned, lanes, ld, val, ctx>>

JsonbinCur == [req |-> req, bins |-> bins]

AttemptLimit(fn) == IF fn = "put" THEN PutAttempts ELSE GetAttempts

\* A build whose loops go on to their last pass after a request was answered with
\* success.
jsonbin_attempt_NoStop(Q, ok) ==
    LET q == Q.req
        last == q.attempt + 1 >= AttemptLimit(q.fn)
        Q1 == [Q EXCEPT !.req.sent = @ + 1, !.req.won = IF ok THEN @ + 1 ELSE @,
                        !.req.attempt = @ + 1]
        Q2 == IF ok /\ q.fn = "put" THEN [Q1 EXCEPT !.bins[q.g] = q.payload] ELSE Q1
    IN IF ~last THEN Q2
       ELSE IF q.fn = "put" THEN [Q2 EXCEPT !.req.pc = "done", !.req.flag = ok]
       ELSE [Q2 EXCEPT !.req.pc = "done", !.req.doc = IF ok THEN Q.bins[q.g] ELSE EmptyDoc]

\* One pass of the loop of _jsonbin_get or _jsonbin_put: the request is answered with
\* success and the function returns (the record, or True after the bin took the
\* payload), or it fails (another status, or an exception) and the loop sleeps and goes
\* on, or is over and the function returns {} or False.
jsonbin_attempt(Q, ok) ==
    LET q == Q.req
        Q1 == [Q EXCEPT !.req.sent = @ + 1, !.req.won = IF ok THEN @ + 1 ELSE @]
    IN IF ok
       THEN IF q.fn = "put"
            THEN [Q1 EXCEPT !.bins[q.g] = q.payload, !.req.pc = "done", !.req.flag = TRUE]
            ELSE [Q1 EXCEPT !.req.pc = "done", !.req.doc = Q.bins[q.g]]
       ELSE IF q.attempt + 1 < AttemptLimit(q.fn)
       THEN [Q1 EXCEPT !.req.attempt = @ + 1]
       ELSE IF q.fn = "put" THEN [Q1 EXCEPT !.req.pc = "done", !.req.flag = FALSE]
       ELSE [Q1 EXCEPT !.req.pc = "done", !.req.doc = EmptyDoc]

JsonbinSet(Q) ==
    /\ req' = Q.req
    /\ bins' = Q.bins
    /\ UNCHANGED JsonbinVars

JsonbinGetCall ==
    \E g \in Guilds :
       /\ req.pc # "running"
       /\ req.calls < MaxRequests
       /\ req' = [IdleReq EXCEPT !.fn = "get", !.pc = "running", !.g = g,
                                 !.calls = req.calls + 1]
       /\ UNCHANGED bins
       /\ UNCHANGED JsonbinVars

JsonbinPutCall ==
    \E g \in Guilds, record \in InitDocs :
       /\ req.pc # "running"
       /\ req.calls < MaxRequests
       /\ req' = [IdleReq EXCEPT !.fn = "put", !.pc = "running", !.g = g,
                                 !.payload = record, !.calls = req.calls + 1]
       /\ UNCHANGED bins
       /\ UNCHANGED JsonbinVars

AttemptSucceeds ==
    /\ req.pc = "running"
    /\ JsonbinSet(jsonbin_attempt(JsonbinCur, TRUE))

AttemptFails ==
    /\ req.pc = "running"
    /\ JsonbinSet(jsonbin_attempt(JsonbinCur, FALSE))

JsonbinInit == InitRegistry /\ lanes = 1 /\ faults = 0

JsonbinNext ==
    \/ JsonbinGetCall
    \/ JsonbinPutCall
    \/ AttemptSucceeds
    \/ AttemptFails

JsonbinSpec == JsonbinInit /\ [][JsonbinNext]_vars

\* ------------------------------------------------------------ callback's responses
ResponseVars == <<member, root, bins, tree, dcache, gcache, alias, procs, boot, regLog,
                  started, faults, inv, abandoned, lanes, ld, val, req>>

\* A build whose callback sends its notices without asking is_done().
callback_after_run_NoCheck(c) ==
    CASE c.outcome = "result" -> [c EXCEPT !.pc = "sendResult"]
      [] c.outcome = "empty" -> [c EXCEPT !.pc = "ended"]
      [] c.outcome \in {"timeout", "raisesTimeout"} -> [c EXCEPT !.pc = "sendTimeout"]
      [] OTHER -> [c EXCEPT !.pc = "sendError"]

\* What callback does once the await of run is over: with a true result and no
\* response yet it sends the result; on asyncio.TimeoutError, and on any other
\* Exception, it sends its notice unless a response was made.
callback_after_run(c) ==
    CASE c.outcome = "result" ->
            [c EXCEPT !.pc = IF ~c.isDone THEN "sendResult" ELSE "ended"]
      [] c.outcome = "empty" -> [c EXCEPT !.pc = "ended"]
      [] c.outcome \in {"timeout", "raisesTimeout"} ->
            [c EXCEPT !.pc = IF ~c.isDone THEN "sendTimeout" ELSE "ended"]
      [] OTHER -> [c EXCEPT !.pc = IF ~c.isDone THEN "sendError" ELSE "ended"]

\* interaction.response.send_message: it raises at once when a response was made
\* through this object; the platform takes one response for an interaction; how:
\*   ok       the request is answered; the response counts as made
\*   refused  the request fails and nothing is delivered (e.g. text too long)
\*   lost     the platform takes the response but the call raises
\* A raise while sending the result goes to 'except Exception', which sends the error
\* notice unless a response was made; a raise while sending the timeout notice leaves
\* the callback; a raise while sending the error notice is passed over.
callback_send(c, how) ==
    LET reaches == ~c.isDone /\ ~c.acked /\ how # "refused"
        returns == reaches /\ how = "ok"
        c1 == [c EXCEPT !.tried = @ + 1,
                        !.delivered = IF reaches THEN @ + 1 ELSE @,
                        !.completed = IF returns THEN @ + 1 ELSE @,
                        !.acked = @ \/ reaches,
                        !.isDone = @ \/ returns]
    IN CASE returns -> [c1 EXCEPT !.pc = "ended"]
         [] c.pc = "sendResult" ->
               [c1 EXCEPT !.pc = IF ~c1.isDone THEN "sendError" ELSE "ended"]
         [] c.pc = "sendTimeout" -> [c1 EXCEPT !.pc = "ended", !.escaped = TRUE]
         [] OTHER -> [c1 EXCEPT !.pc = "ended"]

\* A member uses a dynamic command: callback awaits run.
CallbackCall ==
    \E outcome \in Outcomes :
       /\ ctx.pc \in {"idle", "ended"}
       /\ ctx.calls < MaxCallbacks
       /\ ctx' = [IdleCtx EXCEPT !.pc = "run", !.outcome = outcome, !.calls = ctx.calls + 1]
       /\ UNCHANGED ResponseVars

\* run responds on the interaction itself.
HandlerResponds ==
    /\ ctx.pc = "run"
    /\ ~ctx.isDone
    /\ ctx' = [ctx EXCEPT !.isDone = TRUE, !.acked = TRUE, !.byHandler = TRUE]
    /\ UNCHANGED ResponseVars

\* The await of run is over: it returned, raised, or the timer fired.
RunOver ==
    /\ ctx.pc = "run"
    /\ ctx' = callback_after_run(ctx)
    /\ UNCHANGED ResponseVars

CallbackSends ==
    \E how \in {"ok", "refused", "lost"} :
       /\ ctx.pc \in {"sendResult", "sendTimeout", "sendError"}
       /\ ctx' = callback_send(ctx, how)
       /\ UNCHANGED ResponseVars

ResponseInit == InitRegistry /\ lanes = 1 /\ faults = 0

ResponseNext ==
    \/ CallbackCall
    \/ HandlerResponds
    \/ RunOver
    \/ CallbackSends

ResponseSpec == ResponseInit /\ [][ResponseNext]_vars

\* ------------------------------------------------------------ properties
RegisterFailures == {"error_syntax", "error_call", "error_dunder", "error_toolong",
                     "error_norun", "error_exec", "error_nocallable", "error_add"}
Quiet == boot.pc = "done" /\ \A p \in Procs : procs[p].pc = "idle"
WasRegistered(r) ==
    /\ r.n \in DOMAIN DcOf(r.pre, r.g)
    /\ get_command(r.pre, r.n, Scope(r.g)) # {}

\* C1: when rename_command ends with a registration error for the new name, the old
\* name, which had a handler when the rename began, is still in the dispatch table and
\* in the registry, and the new name has no handler.
C1_RenameFailureKeepsOld ==
    \A p \in Procs :
       LET r == procs[p]
       IN (r.op = "rename_command" /\ r.pc = "idle" /\ r.res \in RegisterFailures
              /\ r.had /\ r.n1 # r.n2)
          => /\ get_command(Cur, r.n1, Scope(r.g)) # {}
             /\ r.n1 \in DOMAIN DcOf(Cur, r.g)
             /\ get_command(Cur, r.n2, Scope(r.g)) = {}

\* C2: a call of register_dynamic_command whose source the validator rejects returns
\* the validator's error and leaves the dispatch table, the registry, the cached
\* documents and the bins exactly as they were.
C2_RejectedRegisterChangesNothing ==
    \A r \in regLog :
       validate_user_code(r.code) # "ok"
       => /\ ~r.ok
          /\ r.err = validate_user_code(r.code)
          /\ r.post = r.pre

\* C2 witness: a rejected call for a name that was registered and had a handler.
C2_Witness ==
    \E r \in regLog : validate_user_code(r.code) # "ok" /\ WasRegistered(r)

\* C3: a call of register_dynamic_command in which add_command raises reports failure
\* and leaves the dispatch table and the registry as they were before the call.
C3_AddFailureRollsBack ==
    \A r \in regLog :
       r.err = "add" => ~r.ok /\ r.post.tree = r.pre.tree /\ r.post.dcache = r.pre.dcache

\* C4: once startup loading is over and no admin command is running, every name in a
\* guild's registry has a handler in the dispatch table and its source passes the
\* validator.
C4_RegistryHasHandlers ==
    Quiet =>
       \A g \in DOMAIN dcache : \A n \in DOMAIN dcache[g] :
          /\ get_command(Cur, n, Scope(g)) # {}
          /\ validate_user_code(dcache[g][n].code) = "ok"

C6_ReRegisterReplaces ==
    \A r \in regLog :
       (r.ok /\ r.n \in DOMAIN DcOf(r.pre, r.g))
       => LET before == list_commands(r.pre, r.g)
              after == list_commands(r.post, r.g)
              sc == Scope(r.g)
          IN /\ DOMAIN after = DOMAIN before
             /\ \A m \in DOMAIN before \ {r.n} : after[m] = before[m]
             /\ after[r.n].text = DescOrDefault(r.description, r.n).text
             /\ DcOf(r.post, r.g)[r.n].code = r.code
             /\ Dispatch(r.post, r.g, r.n) = {Entry(r.code, after[r.n])}
             /\ DOMAIN r.post.tree[sc] = DOMAIN r.pre.tree[sc] \cup {r.n}
             /\ \A m \in DOMAIN r.pre.tree[sc] \ {r.n} : r.post.tree[sc][m] = r.pre.tree[sc][m]

\* C6 witness: a registered name is registered again with another source and another
\* description.
C6_Witness ==
    \E r \in regLog :
       /\ r.ok
       /\ WasRegistered(r)
       /\ DcOf(r.pre, r.g)[r.n].code # r.code
       /\ DcOf(r.pre, r.g)[r.n].description.text # DescOrDefault(r.description, r.n).text

\* C7: while rename_command is between its first and its last step, for a command that
\* had a handler when it began, the old name or the new name has a handler.
C7_RenameNeverLeavesGap ==
    \A p \in Procs :
       LET r == procs[p]
       IN (r.op = "rename_command" /\ r.pc # "idle" /\ r.had)
          => \/ get_command(Cur, r.n1, Scope(r.g)) # {}
             \/ get_command(Cur, r.n2, Scope(r.g)) # {}

\* C8: two admin commands on the same guild never both have their persistence write
\* in flight, each after its own changes to the dispatch table and the registry.
C8_SameTenantSerialized ==
    \A p, q \in Procs :
       (p # q /\ procs[p].g = procs[q].g)
       => ~(procs[p].pc = "put" /\ procs[p].wrote /\ procs[q].pc = "put" /\ procs[q].wrote)

\* C9: an invocation whose handler outlasts the limit ends as Timeout, and every
\* invocation whose handler returns within the limit ends as Success whatever the
\* other invocations did.
C9_TimeoutIsolated ==
    \A i \in Slots :
       inv[i].st = "done"
       => /\ inv[i].beh \in {"sleeps", "spins"} => inv[i].out = "Timeout"
          /\ inv[i].beh = "returns" => inv[i].out = "Success"

\* C10: an invocation whose handler raised ends as Failure: the exception neither
\* leaves the callback nor is reported as anything else.
C10_ExceptionsBecomeFailure ==
    \A i \in Slots :
       (inv[i].st = "done" /\ inv[i].beh \in {"raises", "raisesTimeout", "exits"})
       => inv[i].out = "Failure"

\* C11: a successful register_dynamic_command for guild g changes the dispatch table
\* only in g's own scope, where the command then is; the global scope, the scopes of
\* the other guilds and what list_commands shows for the other guilds stay as they were.
C11_RegisterStaysInTenantScope ==
    \A r \in regLog :
       r.ok
       => /\ r.n \in DOMAIN r.post.tree[r.g]
          /\ \A sc \in Scopes \ {r.g} : r.post.tree[sc] = r.pre.tree[sc]
          /\ \A g \in Guilds \ {r.g} : list_commands(r.post, g) = list_commands(r.pre, g)

\* The cached document of guild g.
CachedDc(g) == IF g \in DOMAIN gcache THEN gcache[g].dc ELSE EmptyDict

\* C12: when an admin command has completed, no other is running and no network call
\* or add_command has failed, each member guild has the same names, with the same
\* sources, in its registry, in its cached document and in its bin.
C12_RegistryMatchesDocument ==
    (Quiet /\ started > 0 /\ faults = 0)
    => \A g \in member :
          /\ DOMAIN DcOf(Cur, g) = DOMAIN bins[g].dc
          /\ DOMAIN DcOf(Cur, g) = DOMAIN CachedDc(g)
          /\ \A n \in DOMAIN DcOf(Cur, g) \cap DOMAIN bins[g].dc :
                DcOf(Cur, g)[n].code = bins[g].dc[n].code
          /\ \A n \in DOMAIN DcOf(Cur, g) \cap DOMAIN CachedDc(g) :
                DcOf(Cur, g)[n].code = CachedDc(g)[n].code

\* The step in which coroutine p begins admin command op, called by an admin.
Starts(p, op) ==
    /\ started' = started + 1
    /\ procs[p].pc = "idle"
    /\ procs'[p].op = op
    /\ procs'[p].res # "denied"
    /\ \A q \in Procs \ {p} : procs'[q] = procs[q]

\* C13: rename_command answers "not found" exactly when the old name is not in the
\* guild's registry, and then the dispatch table, the registry, the cached documents,
\* the bins and the root record are unchanged.
C13_RenameNotFound ==
    [][\A p \in Procs :
          Starts(p, "rename_command")
          => LET r == procs'[p]
                 absent == r.n1 \notin DOMAIN DcOf(Cur, r.g)
             IN /\ (r.pc = "idle" /\ r.res = "notfound") <=> absent
                /\ absent => UNCHANGED <<tree, dcache, gcache, bins, root>>]_vars

\* C13 witness: a rename of a name the guild does not have, answered "not found",
\* while the guild has another command.
C13_Witness ==
    \E p \in Procs :
       /\ procs[p].op = "rename_command"
       /\ procs[p].res = "notfound"
       /\ DOMAIN DcOf(Cur, procs[p].g) # {}

\* The step in which coroutine p ends its admin command with answer res.
Ends(p, op, res) ==
    /\ procs[p].op = op
    /\ procs[p].pc # "idle"
    /\ procs'[p].pc = "idle"
    /\ procs'[p].res = res

\* C14: when rename_command(old, new) with old # new answers "renamed", the registry
\* has new with the source and the description read from old's entry when the rename
\* began, new's handler is compiled from that source, and old is in none of the
\* registry, the dispatch table, the cached document and the bin.
C14_RenameMoves ==
    [][\A p \in Procs :
          (Ends(p, "rename_command", "renamed") /\ procs[p].n1 # procs[p].n2)
          => LET r == procs[p]
                 S == [tree |-> tree', dcache |-> dcache']
             IN /\ r.n2 \in DOMAIN DcOf(S, r.g)
                /\ DcOf(S, r.g)[r.n2] = Entry(r.code, r.desc)
                /\ \A h \in get_command(S, r.n2, Scope(r.g)) : h.code = r.code
                /\ get_command(S, r.n2, Scope(r.g)) # {}
                /\ r.n1 \notin DOMAIN DcOf(S, r.g)
                /\ get_command(S, r.n1, Scope(r.g)) = {}
                /\ r.n1 \notin DOMAIN gcache'[r.g].dc
                /\ r.n1 \notin DOMAIN bins'[r.g].dc]_vars

\* C15: delete_command answers "deleted" only for a name that was in the guild's
\* registry when the command began.
C15_DeleteUnknownFails ==
    \A p \in Procs :
       (procs[p].op = "delete_command" /\ procs[p].pc = "idle" /\ procs[p].res = "deleted")
       => procs[p].known

\* C16: every step of a delete_command for a name that was registered leaves that name
\* out of the registry and without a handler in the guild's scope, and leaves every
\* other registry entry and every other handler as it was.
C16_DeleteRemovesOnlyN ==
    [][\A p \in Procs :
          (procs'[p] # procs[p] /\ procs'[p].op = "delete_command" /\ procs'[p].known)
          => LET r == procs'[p]
                 T == [tree |-> tree', dcache |-> dcache']
             IN /\ r.n1 \notin DOMAIN DcOf(T, r.g)
                /\ r.n1 \notin DOMAIN list_commands(T, r.g)
                /\ get_command(T, r.n1, Scope(r.g)) = {}
                /\ \A g \in Guilds, n \in Names :
                      <<g, n>> # <<r.g, r.n1>> => Opt(DcOf(T, g), n) = Opt(DcOf(Cur, g), n)
                /\ \A sc \in Scopes, n \in Names :
                      <<sc, n>> # <<Scope(r.g), r.n1>>
                      => get_command(T, n, sc) = get_command(Cur, n, sc)]_vars

\* A delete_command removed a registered command that had a handler while the guild
\* has another command.
C16_Witness ==
    \E p \in Procs :
       /\ procs[p].op = "delete_command" /\ procs[p].pc = "idle"
       /\ procs[p].known /\ procs[p].had
       /\ DOMAIN DcOf(Cur, procs[p].g) # {}
       /\ DOMAIN tree[procs[p].g] # {}

\* C17: while save_guild_data waits for the store, the cached document of the guild
\* is already the document being saved (with the saved command in it); in the step
\* in which the write fails the bin keeps its old document, and, unless a rename goes
\* on to register the new name, the command ends there with the cached document, the
\* registry and the dispatch table as they were:
\* create_command and describe_command answer with the save warning and the command
\* stays registered with its handler.
C17_CacheBeforeWrite ==
    [][\A p \in Procs :
          LET r == procs'[p]
              T == [tree |-> tree', dcache |-> dcache']
          IN /\ (r.pc \in {"savecfg", "put"})
                => /\ r.g \in DOMAIN gcache'
                   /\ r.att
                   /\ r.sop = "save" => Opt(gcache'[r.g].dc, r.n) = {StoredEntry(r)}
             /\ (r.failed /\ ~procs[p].failed)
                => /\ bins' = bins
                   /\ ~(r.op = "rename_command" /\ procs[p].sop = "del")
                      => /\ r.pc = "idle"
                         /\ gcache' = gcache
                         /\ dcache' = dcache
                         /\ tree' = tree
                   /\ r.op \in {"create_command", "describe_command"}
                      => /\ r.res = "warn_save"
                         /\ Opt(DcOf(T, r.g), procs[p].n) = {StoredEntry(procs[p])}
                         /\ Opt(gcache'[r.g].dc, procs[p].n) = {StoredEntry(procs[p])}
                         /\ get_command(T, procs[p].n, Scope(r.g)) # {}]_vars

\* A create_command ended with the save warning: the cached document has the command
\* and the bin does not.
C17_Witness ==
    \E p \in Procs, n \in Names :
       /\ procs[p].op = "create_command" /\ procs[p].res = "warn_save" /\ procs[p].failed
       /\ n \in DOMAIN gcache[procs[p].g].dc
       /\ n \in DOMAIN DcOf(Cur, procs[p].g)
       /\ n \notin DOMAIN bins[procs[p].g].dc

\* C18: load_guild_data of a cached guild returns the cached document in the same
\* step, sends no request and leaves the cache alone; of a guild that is not cached it
\* starts fetching.  Every pass of a fetch sends one request; a request that fails is
\* followed by another one until GetAttempts requests of the fetch have failed, and
\* then the call returns the empty document and caches it.  A call that returns after
\* fetching returns the document it cached.
C18_LoadGuildData ==
    [][ld' # ld
       => /\ (ld.pc = "idle" /\ ld'.g \in DOMAIN gcache)
             => /\ ld'.pc = "idle" /\ ld'.hit
                /\ ld'.res = gcache[ld'.g]
                /\ ld'.contacts = 0
                /\ gcache' = gcache
          /\ (ld.pc = "idle" /\ ld'.g \notin DOMAIN gcache)
             => ld'.pc = "root" /\ ld'.contacts = 0 /\ gcache' = gcache
          /\ ld.pc # "idle"
             => /\ ld'.contacts = ld.contacts + 1
                /\ ld.attempt < GetAttempts
                /\ ld'.contacts <= 2 * GetAttempts
                /\ ld'.last = "fail"
                   => IF ld.attempt + 1 < GetAttempts
                      THEN ld'.pc = ld.pc /\ ld'.attempt = ld.attempt + 1 /\ gcache' = gcache
                      ELSE ld'.pc = "idle" /\ ld'.res = EmptyDoc
                /\ ld'.pc = "idle"
                   => ld'.g \in DOMAIN gcache' /\ ld'.res = gcache'[ld'.g]]_vars

\* A call of load_guild_data read the root record at the third request and returned
\* the empty document after three failed requests for the guild's bin.
C18_Witness ==
    /\ ld.pc = "idle" /\ ~ld.hit
    /\ ld.contacts = 2 * GetAttempts
    /\ ld.last = "fail"
    /\ ld.res = EmptyDoc
    /\ bins[ld.g] # EmptyDoc

\* C19: an admin command one of whose storage calls returned False does not end with
\* the answer of a command whose storage calls all succeeded.
C19_FailedWriteIsReported ==
    \A p \in Procs :
       (procs[p].op \in AdminOps /\ procs[p].pc = "idle" /\ procs[p].failed)
       => procs[p].res \notin {"created", "deleted", "renamed", "updated"}

\* The source passes validate_user_code, exec() and the test that run is callable.
Compiles(code) == validate_user_code(code) = "ok" /\ code.execOk /\ RunCallable(code)

\* on_ready has completed and no admin command has been used yet.
JustStarted == boot.pc = "done" /\ started = 0

HandlerFromBin(g, n) ==
    \E h \in get_command(Cur, n, Scope(g)) : h.code = bins[g].dc[n].code

C21_HandlersAreValidated ==
    \A sc \in Scopes : \A n \in DOMAIN tree[sc] :
       tree[sc][n] # StaticCmd => validate_user_code(tree[sc][n].code) = "ok"

\* A command with a denied call was refused while the table has a dynamic handler.
C21_Witness ==
    /\ \E p \in Procs : procs[p].pc = "idle" /\ procs[p].res = "error_call"
    /\ \E sc \in Scopes : \E n \in DOMAIN tree[sc] : tree[sc][n] # StaticCmd

\* validate_user_code has answered for the source in val.
Validated == val.res # "none"

\* The two messages of the visitor: a denied call, an attribute beginning with "__".
Disallowed == {"call", "dunder"}

\* The calls of a source whose callee is named like a dynamic-evaluation primitive.
DeniedCallNodes(src) == {n \in NodesOf(src) : n.kind = "Call" /\ Ident(n.name) \in DeniedCalls}

DunderAttributes(src) == {n \in AttributesOf(src) : StartsWithDunder(n.name)}

\* C22 as stated: a source with a call to eval, exec, __import__, compile or execfile,
\* whatever the form of the callee, is refused by the visitor.
C22_DeniedCallRejected ==
    (Validated /\ DeniedCallNodes(val.src) # {}) => val.res \in Disallowed

\* C22, amended: a source with a call whose callee is the bare name of one of the
\* primitives is refused by the visitor, at module level or inside a function.
C22_DeniedNameCallRejected ==
    (Validated /\ \E n \in DeniedCallNodes(val.src) : n.via = "name")
    => val.res \in Disallowed

\* A source with a module-level run and a call of a primitive by name inside a
\* function was refused for the call.
C22_Witness ==
    /\ val.res = "call"
    /\ TopRunDefs(val.src) # <<>>
    /\ \E n \in DeniedCallNodes(val.src) : n.via = "name" /\ n.level = "function"

\* C23 as stated: the answer is the length message exactly for the sources longer
\* than MaxCodeLen.
C23_TooLongIffOverLimit ==
    Validated => (val.src.size > MaxCodeLen <=> val.res = "toolong")

\* C23, amended: a source longer than MaxCodeLen is never admitted; the answer is the
\* length message when it parses and the visitor finds nothing, and is never the
\* length message for a source of MaxCodeLen characters or fewer.
C23_TooLongRejected ==
    Validated
    => /\ val.src.size > MaxCodeLen => val.res # "ok"
       /\ val.res = "toolong" => val.src.size > MaxCodeLen
       /\ (/\ val.src.size > MaxCodeLen
           /\ val.src.syntax
           /\ ~\E n \in DeniedCallNodes(val.src) : n.via = "name"
           /\ DunderAttributes(val.src) = {})
          => val.res = "toolong"

\* A source that was refused for its length although it defines run.
C23_Witness ==
    /\ val.res = "toolong"
    /\ TopRunDefs(val.src) # <<>>

\* C24: an admitted source has exactly one module-level def of run, and it takes one
\* parameter.
C24_OneTopLevelRunOfOneParameter ==
    (Validated /\ val.res = "ok")
    => /\ Len(TopRunDefs(val.src)) = 1
       /\ TopRunDefs(val.src)[1].nargs = 1

\* C25: a source that parses, is within the length limit, has no denied call by name
\* and no attribute beginning with "__", and has no def named run at any depth, is
\* refused for the missing run.
C25_NoRunRejected ==
    (/\ Validated
     /\ val.src.syntax
     /\ val.src.size <= MaxCodeLen
     /\ ~\E n \in DeniedCallNodes(val.src) : n.via = "name"
     /\ DunderAttributes(val.src) = {}
     /\ ~\E n \in NodesOf(val.src) : IsDef(n) /\ n.name = iRun)
    => val.res = "norun"

\* A source that defines only a function of another name was refused for the missing
\* run.
C25_Witness ==
    /\ val.res = "norun"
    /\ \E n \in NodesOf(val.src) : IsDef(n) /\ n.name = iHelper

\* C26: a source with an attribute whose name begins with "__" is refused by the
\* visitor, whether the attribute is read, assigned, deleted or called.
C26_DunderAttributeRejected ==
    (Validated /\ DunderAttributes(val.src) # {}) => val.res \in Disallowed

\* A source that assigns to an attribute beginning with "__" and has nothing else
\* against it was refused for the attribute.
C26_Witness ==
    /\ val.res = "dunder"
    /\ TopRunDefs(val.src) # <<>>
    /\ \E n \in DunderAttributes(val.src) : n.kind = "Attribute" /\ n.via = "store"

\* C27: the callback never runs a blocking run itself: it queues it for the default
\* executor, where it starts only when a thread of the pool is free, so that at most
\* PoolSize of them run; when a running one outlasts the limit the invocation ends
\* with Timeout in the step of the timer, while its thread stays taken.
C27_BlockingRunsOnPool ==
    [][\A i \in Slots :
          /\ (inv[i].st = "idle" /\ inv'[i].st # "idle" /\ ~inv'[i].isAsync)
             => inv'[i].st = "queued"
          /\ (~inv'[i].isAsync /\ inv'[i].st = "running" /\ inv[i].st # "running")
             => inv[i].st = "queued" /\ Busy < PoolSize
          /\ Busy' <= PoolSize
          /\ (/\ ~inv[i].isAsync /\ inv[i].st = "running" /\ inv[i].beh = "sleeps"
              /\ inv'[i].st = "done")
             => /\ inv'[i].out = "Timeout"
                /\ abandoned' = abandoned + 1
                /\ Busy' = Busy]_vars

\* A blocking run outlasted the limit: its invocation ended with Timeout and its
\* thread is still taken.
C27_Witness ==
    /\ abandoned > 0
    /\ \E i \in Slots : ~inv[i].isAsync /\ inv[i].st = "done" /\ inv[i].out = "Timeout"

\* Coroutines p and q are handling admin commands of two different guilds.
OtherTenant(p, q) ==
    /\ p # q
    /\ procs[p].pc # "idle"
    /\ procs[q].pc # "idle"
    /\ procs[p].g # procs[q].g

\* C28: wherever a command of another guild stands, the step of a command that is
\* about to call register_dynamic_command carries it through the call (to its save or
\* to its answer) and leaves the other command's coroutine, scope and registry as they
\* were; and no call of register_dynamic_command changes the scope or the registry of
\* a guild that another command in flight is working on.
C28_TenantsDoNotWait ==
    /\ \A p, q \in Procs :
          (OtherTenant(p, q) /\ procs[p].pc = "reg")
          => LET S2 == RegisterAndSaveStep(Cur, p, {})
                 gq == procs[q].g
             IN /\ S2.procs[p].pc # "reg"
                /\ S2.procs[q] = procs[q]
                /\ S2.tree[Scope(gq)] = tree[Scope(gq)]
                /\ DcOf(S2, gq) = DcOf(Cur, gq)
    /\ \A r \in regLog : \A q \in Procs :
          (procs[q].pc # "idle" /\ procs[q].g # r.g)
          => /\ r.post.tree[Scope(procs[q].g)] = r.pre.tree[Scope(procs[q].g)]
             /\ DcOf(r.post, procs[q].g) = DcOf(r.pre, procs[q].g)

\* Two commands of different guilds are both about to call register_dynamic_command.
C28_Witness ==
    \E p, q \in Procs : OtherTenant(p, q) /\ procs[p].pc = "reg" /\ procs[q].pc = "reg"

\* Answers of an admin command whose storage calls all returned True.
StoredAnswers == {"created", "deleted", "renamed", "updated"}

\* C29: when two admin commands of one guild have both ended with all their storage
\* calls returning True, and no request failed, the bin holds the guild's cached
\* document.
C29_BinEqualsCacheAfterWrites ==
    \A p, q \in Procs :
       (/\ Quiet
        /\ faults = MaxFaults - MaxConcFaults
        /\ p # q
        /\ procs[p].g = procs[q].g
        /\ procs[p].res \in StoredAnswers /\ ~procs[p].failed
        /\ procs[q].res \in StoredAnswers /\ ~procs[q].failed)
       => bins[procs[p].g] = gcache[procs[p].g]

\* C30: a write of save_dynamic_command or delete_dynamic_command_from_store that the
\* store accepts leaves every command of the bin other than the one saved or deleted
\* in the bin, with the entry it had.
C30_WriteKeepsOtherEntries ==
    [][\A p \in Procs :
          (/\ procs[p].pc = "put"
           /\ procs[p].sop \in {"save", "del"}
           /\ procs'[p].pc # "put"
           /\ ~procs'[p].failed)
          => \A m \in DOMAIN bins[procs[p].g].dc \ {procs[p].n} :
                Opt(bins'[procs[p].g].dc, m) = {bins[procs[p].g].dc[m]}]_vars

\* C31: when two setup_jsonbin commands for different guilds have both had their
\* save_guild_bin_config return True, and no request failed, the root record has the
\* configuration of both guilds.
C31_RootKeepsBothConfigs ==
    \A p, q \in Procs :
       (/\ Quiet
        /\ faults = MaxFaults - MaxConcFaults
        /\ procs[p].op = "setup_jsonbin" /\ procs[p].res = "configured"
        /\ procs[q].op = "setup_jsonbin" /\ procs[q].res = "configured"
        /\ procs[p].g # procs[q].g)
       => {procs[p].g, procs[q].g} \subseteq root

\* C32: a call of _jsonbin_get or _jsonbin_put sends at most three requests; the pass
\* whose request is answered with success is its last, and so is the third pass; a
\* call that has returned sends nothing more; _jsonbin_put returns True exactly when
\* a request was answered with success, and _jsonbin_get returns the bin's record
\* exactly then and {} otherwise.
C32_RetriesAreBounded ==
    [][req' # req
       => /\ req'.sent <= AttemptLimit(req'.fn)
          /\ req'.won <= 1
          /\ req.pc = "done" => req'.pc = "running" /\ req'.sent = 0
          /\ req.pc = "running"
             => /\ req'.sent = req.sent + 1
                /\ req'.won > req.won => req'.pc = "done"
                /\ req'.sent = AttemptLimit(req.fn) => req'.pc = "done"
                /\ (req'.won = req.won /\ req'.sent < AttemptLimit(req.fn))
                   => req'.pc = "running"
          /\ (req'.pc = "done" /\ req'.fn = "put")
             => /\ req'.flag <=> req'.won = 1
                /\ req'.flag => bins'[req'.g] = req'.payload
                /\ ~req'.flag => bins' = bins
          /\ (req'.pc = "done" /\ req'.fn = "get")
             => /\ req'.doc = IF req'.won = 1 THEN bins[req'.g] ELSE EmptyDoc
                /\ bins' = bins]_vars

\* A _jsonbin_put returned True after two failed requests and a third that the bin
\* accepted.
C32_Witness ==
    /\ req.fn = "put" /\ req.pc = "done"
    /\ req.sent = PutAttempts
    /\ req.flag
    /\ bins[req.g] = req.payload

\* C33: an invocation ends as Timeout only when its handler had not ended at the
\* limit (it was still running, or still waiting for a thread); an invocation whose
\* handler ends within the limit by raising, whatever it raises, ends as Failure.
C33_TimeoutOnlyAtTheLimit ==
    [][\A i \in Slots :
          (inv[i].st # "done" /\ inv'[i].st = "done")
          => /\ inv'[i].out = "Timeout"
                => \/ inv[i].st = "queued"
                   \/ inv[i].beh = "sleeps"
             /\ (inv[i].st = "running" /\ inv[i].beh \in {"raises", "raisesTimeout", "exits"})
                => inv'[i].out = "Failure"]_vars

\* C34: a create_command, describe_command, delete_command, rename_command or
\* rename_command_description used by someone who is not an admin is answered
\* "Admin only" at once, and the dispatch table, the registry, the cached documents,
\* the bins and the root record are as they were; no registration is attempted.
C34_NonAdminChangesNothing ==
    [][\A p \in Procs :
          (/\ started' = started + 1
           /\ procs[p].pc = "idle"
           /\ procs'[p] # procs[p]
           /\ procs'[p].res = "denied")
          => /\ procs'[p].op \in AdminOps
             /\ procs'[p].pc = "idle"
             /\ UNCHANGED <<tree, dcache, gcache, bins, root, alias>>
             /\ regLog' = {}]_vars

\* C34 witness: a refused admin command in a guild that has a command with a handler,
\* in the registry and in its bin.
C34_Witness ==
    \E p \in Procs :
       /\ procs[p].res = "denied"
       /\ procs[p].op = "delete_command"
       /\ DOMAIN tree[procs[p].g] # {}
       /\ DOMAIN DcOf(Cur, procs[p].g) # {}
       /\ bins[procs[p].g] # EmptyDoc

\* C35: in one invocation at most one send_message of the callback returns, and the
\* platform takes at most one response from it (the result, the timeout notice or the
\* error notice); when run has responded itself the callback calls send_message not
\* once.
C35_OneResponse ==
    /\ ctx.completed <= 1
    /\ ctx.delivered <= 1
    /\ ctx.tried > 1 => ctx.completed + 1 <= ctx.tried
    /\ ctx.byHandler => ctx.tried = 0

\* C35 witness: the second invocation of a run is over; its result was refused and the
\* error notice sent in its place was delivered.
C35_Witness ==
    /\ ctx.pc = "ended"
    /\ ctx.calls = MaxCallbacks
    /\ ctx.outcome = "result"
    /\ ctx.tried = 2
    /\ ctx.completed = 1
    /\ ctx.delivered = 1

====
